---- MODULE Spec2Model ----
(***************************************************************************)
(* The FastAPI service of app/main.py: three routes over process-wide      *)
(* Prometheus metrics.                                                     *)
(*                                                                         *)
(*   GET /          root()      sync handler, runs on a thread-pool worker *)
(*   GET /get_info  get_info()  async handler, runs on the event loop      *)
(*   GET /metrics   metrics()   sync handler, runs on a thread-pool worker *)
(*                                                                         *)
(* get_info contains no await, so the event loop runs one get_info at a    *)
(* time from its first statement to its return; the worker threads run     *)
(* beside it and beside each other, and may be switched between any two    *)
(* calls.  Counter.inc and Gauge.set each take the metric's own lock, so   *)
(* one increment or one set is one step.  generate_latest walks the        *)
(* registry metric by metric, reading each under that metric's lock only.  *)
(*                                                                         *)
(* The process and platform collectors of the default registry and the     *)
(* _created samples of the counters are left out of the exposition.        *)
(***************************************************************************)
EXTENDS Integers, Sequences, FiniteSets, TLC

VARIABLES
    env,                        \* os.environ after load_dotenv (line 17)
    hostname,                   \* what socket.gethostname() returns
    now,                        \* what time.time() returns
    START_TIME,                 \* line 32
    REQUEST_COUNT,              \* value of the counter of line 20
    REQUEST_COUNT_PER_VERSION,  \* children of the counter of line 21: label -> value
    gauge,                      \* values of the gauges of lines 26-30
    loop,                       \* the event loop: position in get_info and its locals
    pc,                         \* each worker thread's position
    sample,                     \* each worker's evaluated argument of the pending .set()
    body,                       \* each worker's part of generate_latest() built so far
    response,                   \* the response the last step completed, if any
    quota,                      \* GET /metrics requests the clients send in all
    scrapes,                    \* GET /metrics requests dispatched so far
    served,                     \* history: completed GET /get_info per version
    lastSample,                 \* history: the sample taken last, per gauge
    maxReported,                \* history: largest uptime a completed scrape reported
    scrape                      \* history of each worker's scrape in progress

vars == <<env, hostname, now, START_TIME, REQUEST_COUNT, REQUEST_COUNT_PER_VERSION,
          gauge, loop, pc, sample, body, response, quota, scrapes, served, lastSample,
          maxReported, scrape>>

config == <<env, hostname, START_TIME, quota>>
counters == <<REQUEST_COUNT, REQUEST_COUNT_PER_VERSION>>
history == <<served, lastSample, maxReported, scrape>>

-----------------------------------------------------------------------------
(* Bounds *)

MaxInfo == 2        \* GET /get_info requests served
MaxScrapes == 1     \* GET /metrics requests sent beside the other routes
MaxRaces == 3       \* GET /metrics requests sent when no other route is used
MaxTime == 1        \* clock ticks

Workers == {1, 2}

TitleValues == {"Pilot", ""}
VersionValues == {"2.0", ""}
Hostnames == {"minikube", "pilot-7c9"}

CpuValues == {25}
MemoryValues == {40}
ThreadValues == {3}
DiskValues == {60}

None == -1

-----------------------------------------------------------------------------
(* Strings *)

StartsWith(s, prefix) ==
    /\ Len(prefix) <= Len(s)
    /\ SubSeq(s, 1, Len(prefix)) = prefix

EndsWith(s, suffix) ==
    /\ Len(suffix) <= Len(s)
    /\ SubSeq(s, Len(s) - Len(suffix) + 1, Len(s)) = suffix

RECURSIVE SetToSeq(_)
SetToSeq(S) ==
    IF S = {} THEN <<>>
    ELSE LET x == CHOOSE y \in S : TRUE
         IN <<x>> \o SetToSeq(S \ {x})

RECURSIVE Sum(_)
Sum(f) ==
    IF DOMAIN f = {} THEN 0
    ELSE LET x == CHOOSE y \in DOMAIN f : TRUE
         IN f[x] + Sum([y \in DOMAIN f \ {x} |-> f[y]])

Max(a, b) == IF a >= b THEN a ELSE b

-----------------------------------------------------------------------------
(* Environment *)

EnvKeys == {"APP_TITLE", "APP_VERSION"}

\* every environment: each key unset, or set to one of its values
Environments ==
    UNION {{e \in [K -> TitleValues \cup VersionValues] :
                \A k \in K : e[k] \in IF k = "APP_TITLE" THEN TitleValues
                                                          ELSE VersionValues}
           : K \in SUBSET EnvKeys}

\* the environments beside which the metrics are followed: the title, which
\* reaches nothing but the JSON body, is left unset, and the version is unset
\* or set to a version other than the default
VersionEnvironments ==
    {e \in Environments : "APP_TITLE" \notin DOMAIN e /\ \A k \in DOMAIN e : e[k] # ""}

\* os.getenv(key) or default: an empty value falls back to the default
getenv_or(key, default) ==
    IF key \in DOMAIN env /\ env[key] # "" THEN env[key] ELSE default

getenv(key, default) == IF key \in DOMAIN env THEN env[key] ELSE default

-----------------------------------------------------------------------------
(* Metrics registry *)

GaugeOrder == <<"cpu_usage_percent", "memory_usage_percent", "uptime_seconds",
                "thread_count", "disk_usage_percent">>

GaugeNames == {GaugeOrder[i] : i \in 1..Len(GaugeOrder)}

\* Counter(name): the family name drops a trailing _total; the exposed
\* sample is the family name followed by _total.
CounterFamily(name) ==
    IF EndsWith(name, "_total") THEN SubSeq(name, 1, Len(name) - 6) ELSE name

CounterSample(name) == CounterFamily(name) \o "_total"

Registry == <<
    [type |-> "counter", name |-> CounterSample("get_info_requests_total"),
     labelled |-> FALSE],
    [type |-> "counter", name |-> CounterSample("get_info_requests_total_by_version"),
     labelled |-> TRUE],
    [type |-> "gauge", name |-> "cpu_usage_percent", labelled |-> FALSE],
    [type |-> "gauge", name |-> "memory_usage_percent", labelled |-> FALSE],
    [type |-> "gauge", name |-> "uptime_seconds", labelled |-> FALSE],
    [type |-> "gauge", name |-> "thread_count", labelled |-> FALSE],
    [type |-> "gauge", name |-> "disk_usage_percent", labelled |-> FALSE] >>

Line(kind, name, labels, value) ==
    [kind |-> kind, name |-> name, labels |-> labels, value |-> value]

Header(m) ==
    << Line("HELP", m.name, <<>>, 0), Line("TYPE", m.name, <<>>, 0) >>

ChildLines(m, children, order) ==
    [i \in 1..Len(order) |->
        Line("sample", m.name, << <<"version", order[i]>> >>, children[order[i]])]

\* a family is written only when it has samples
CollectSampled(i) ==
    LET m == Registry[i]
        samples ==
            IF m.type = "gauge" THEN << Line("sample", m.name, <<>>, gauge[m.name]) >>
            ELSE IF m.labelled
                 THEN ChildLines(m, REQUEST_COUNT_PER_VERSION,
                                 SetToSeq(DOMAIN REQUEST_COUNT_PER_VERSION))
                 ELSE << Line("sample", m.name, <<>>, REQUEST_COUNT) >>
    IN  IF samples = <<>> THEN <<>> ELSE Header(m) \o samples

\* The lines generate_latest writes for the i-th registered metric, from the
\* values the metric holds now.
Collect(i) ==
    LET m == Registry[i]
    IN  Header(m) \o
        IF m.type = "gauge" THEN << Line("sample", m.name, <<>>, gauge[m.name]) >>
        ELSE IF m.labelled
             THEN ChildLines(m, REQUEST_COUNT_PER_VERSION,
                             SetToSeq(DOMAIN REQUEST_COUNT_PER_VERSION))
             ELSE << Line("sample", m.name, <<>>, REQUEST_COUNT) >>

-----------------------------------------------------------------------------
(* Responses *)

\* urllib.parse.quote over the characters a route can hold here
Quote(url) ==
    LET enc(c) == IF c = " " THEN "%20" ELSE c
        q[i \in 0..Len(url)] ==
            IF i = 0 THEN "" ELSE q[i - 1] \o enc(SubSeq(url, i, i))
    IN  q[Len(url)]

RedirectResponseStatus(url, status_code) ==
    [kind |-> "redirect", route |-> "/", status_code |-> status_code,
     location |-> Quote(url)]

\* RedirectResponse(url=..., status_code=302)
RedirectResponseFound(url) == RedirectResponseStatus(url, 302)

\* RedirectResponse(url=...): status_code defaults to 307
RedirectResponse(url) == RedirectResponseStatus(url, 307)

JSONResponse(content) ==
    [kind |-> "json", route |-> "/get_info", status_code |-> 200, content |-> content]

ServerError(route) ==
    [kind |-> "error", route |-> route, status_code |-> 500, lines |-> <<>>,
     raised |-> TRUE]

-----------------------------------------------------------------------------

Idle == [stage |-> "idle", i |-> 0]

NoResponse == [kind |-> "none", route |-> ""]

\* The thread pool hands a sync handler to an idle worker.  Idle workers hold
\* no state of their own, so which one is taken makes no difference: the
\* first is.
Free(t) ==
    /\ pc[t] = Idle
    /\ \A u \in Workers : pc[u] = Idle => t <= u

\* a step that completes no request
Silent == response' = NoResponse

NoScrape == [floor |-> None, raised |-> FALSE, seen |-> <<>>, between |-> FALSE]

Init ==
    /\ env \in VersionEnvironments
    /\ hostname = "minikube"
    /\ now = 0
    /\ START_TIME = now
    /\ REQUEST_COUNT = 0
    /\ REQUEST_COUNT_PER_VERSION = << >>
    /\ gauge = [g \in GaugeNames |-> 0]
    /\ loop = [pc |-> "idle", app_title |-> "", app_version |-> ""]
    /\ pc = [t \in Workers |-> Idle]
    /\ sample = [t \in Workers |-> 0]
    /\ body = [t \in Workers |-> <<>>]
    /\ response = NoResponse
    /\ quota = MaxScrapes
    /\ scrapes = 0
    /\ served = << >>
    /\ lastSample = [g \in GaugeNames |-> None]
    /\ maxReported = None
    /\ scrape = [t \in Workers |-> NoScrape]

-----------------------------------------------------------------------------
(* GET / : lines 34-36 *)

\* the redirect names another route
root_elsewhere(t) ==
    /\ Free(t)
    /\ response' = RedirectResponse("/info")
    /\ UNCHANGED <<config, now, counters, gauge, loop, pc, sample, body, scrapes, history>>

root(t) ==
    /\ Free(t)
    /\ response' = RedirectResponse("/get_info")
    /\ UNCHANGED <<config, now, counters, gauge, loop, pc, sample, body, scrapes, history>>

-----------------------------------------------------------------------------
(* GET /get_info : lines 38-50, on the event loop *)

Child(v) ==
    IF v \in DOMAIN REQUEST_COUNT_PER_VERSION THEN REQUEST_COUNT_PER_VERSION[v] ELSE 0

Served(v) == IF v \in DOMAIN served THEN served[v] ELSE 0

\* lines 40-41
get_info_getenv ==
    /\ loop.pc = "idle"
    /\ REQUEST_COUNT < MaxInfo
    /\ loop' = [pc |-> "inc_total",
                app_title |-> getenv("APP_TITLE", "My FastAPI App"),
                app_version |-> getenv("APP_VERSION", "1.0")]
    /\ Silent
    /\ UNCHANGED <<config, now, counters, gauge, pc, sample, body, scrapes, history>>

\* the increment of line 43 is missing
get_info_inc_total_lost ==
    /\ loop.pc = "inc_total"
    /\ loop' = [loop EXCEPT !.pc = "labels"]
    /\ Silent
    /\ UNCHANGED <<config, now, counters, gauge, pc, sample, body, scrapes, history>>

\* line 43
get_info_inc_total ==
    /\ loop.pc = "inc_total"
    /\ REQUEST_COUNT' = REQUEST_COUNT + 1
    /\ loop' = [loop EXCEPT !.pc = "labels"]
    /\ Silent
    /\ UNCHANGED <<config, now, REQUEST_COUNT_PER_VERSION, gauge, pc, sample, body,
                   scrapes, history>>

\* line 44, .labels(version=app_version): the child is created at 0 when new
get_info_labels ==
    /\ loop.pc = "labels"
    /\ REQUEST_COUNT_PER_VERSION' =
          [v \in DOMAIN REQUEST_COUNT_PER_VERSION \cup {loop.app_version} |-> Child(v)]
    /\ loop' = [loop EXCEPT !.pc = "inc_version"]
    /\ Silent
    /\ UNCHANGED <<config, now, REQUEST_COUNT, gauge, pc, sample, body, scrapes, history>>

\* the child starts over at every request
get_info_inc_version_reset ==
    /\ loop.pc = "inc_version"
    /\ REQUEST_COUNT_PER_VERSION' =
          [REQUEST_COUNT_PER_VERSION EXCEPT ![loop.app_version] = 1]
    /\ loop' = [loop EXCEPT !.pc = "return"]
    /\ Silent
    /\ UNCHANGED <<config, now, REQUEST_COUNT, gauge, pc, sample, body, scrapes, history>>

\* line 44, .inc()
get_info_inc_version ==
    /\ loop.pc = "inc_version"
    /\ REQUEST_COUNT_PER_VERSION' =
          [REQUEST_COUNT_PER_VERSION EXCEPT ![loop.app_version] = @ + 1]
    /\ loop' = [loop EXCEPT !.pc = "return"]
    /\ Silent
    /\ UNCHANGED <<config, now, REQUEST_COUNT, gauge, pc, sample, body, scrapes, history>>

\* get_info refreshes the uptime gauge as well
get_info_return_sampling ==
    /\ loop.pc = "return"
    /\ response' = JSONResponse([APP_VERSION |-> loop.app_version,
                                 APP_TITLE |-> loop.app_title,
                                 MESSAGE |-> "Hello from " \o hostname])
    /\ served' = [v \in DOMAIN served \cup {loop.app_version} |->
                     IF v = loop.app_version THEN Served(v) + 1 ELSE Served(v)]
    /\ gauge' = [gauge EXCEPT !["uptime_seconds"] = now - START_TIME + 1]
    /\ loop' = [pc |-> "idle", app_title |-> "", app_version |-> ""]
    /\ UNCHANGED <<config, now, counters, pc, sample, body, scrapes,
                   lastSample, maxReported, scrape>>

\* lines 46-50
get_info_return ==
    /\ loop.pc = "return"
    /\ response' = JSONResponse([APP_VERSION |-> loop.app_version,
                                 APP_TITLE |-> loop.app_title,
                                 MESSAGE |-> "Hello from " \o hostname])
    /\ served' = [v \in DOMAIN served \cup {loop.app_version} |->
                     IF v = loop.app_version THEN Served(v) + 1 ELSE Served(v)]
    /\ loop' = [pc |-> "idle", app_title |-> "", app_version |-> ""]
    /\ UNCHANGED <<config, now, counters, gauge, pc, sample, body, scrapes,
                   lastSample, maxReported, scrape>>

get_info ==
    \/ get_info_getenv
    \/ get_info_inc_total
    \/ get_info_labels
    \/ get_info_inc_version
    \/ get_info_return

-----------------------------------------------------------------------------
(* GET /metrics : lines 52-60, on a worker thread *)

\* what the sampling call of the i-th gauge can return now
Samples(i) ==
    CASE i = 1 -> CpuValues                 \* psutil.cpu_percent()
      [] i = 2 -> MemoryValues              \* psutil.virtual_memory().percent
      [] i = 3 -> {now - START_TIME}        \* time.time() - START_TIME
      [] i = 4 -> ThreadValues              \* threading.active_count()
      [] i = 5 -> DiskValues                \* psutil.disk_usage("/").percent

\* the psutil calls read the operating system and may raise
MayRaise(i) == i \in {1, 2, 5}

\* the position at which a request enters or continues its sampling
AtSample(t, i) ==
    IF i = 1 THEN Free(t) /\ scrapes < quota
    ELSE pc[t] = [stage |-> "sample", i |-> i]

Dispatch(t, i) ==
    IF i = 1
    THEN /\ scrapes' = scrapes + 1
         /\ scrape' = [scrape EXCEPT ![t] = [NoScrape EXCEPT !.floor = maxReported]]
    ELSE UNCHANGED <<scrapes, scrape>>

\* the argument of a .set() is evaluated
metrics_sample(t) ==
    \E i \in 1..Len(GaugeOrder) :
        /\ AtSample(t, i)
        /\ \E v \in Samples(i) :
              /\ sample' = [sample EXCEPT ![t] = v]
              /\ lastSample' = [lastSample EXCEPT ![GaugeOrder[i]] = v]
        /\ pc' = [pc EXCEPT ![t] = [stage |-> "set", i |-> i]]
        /\ Dispatch(t, i)
        /\ Silent
        /\ UNCHANGED <<config, now, counters, gauge, loop, body, served, maxReported>>

\* the handler catches the error and goes on with a zero sample
metrics_raise_caught(t) ==
    \E i \in 1..Len(GaugeOrder) :
        /\ AtSample(t, i)
        /\ MayRaise(i)
        /\ sample' = [sample EXCEPT ![t] = 0]
        /\ pc' = [pc EXCEPT ![t] = [stage |-> "set", i |-> i]]
        /\ scrapes' = IF i = 1 THEN scrapes + 1 ELSE scrapes
        /\ scrape' = [scrape EXCEPT ![t] =
                         [(IF i = 1 THEN [NoScrape EXCEPT !.floor = maxReported]
                                    ELSE scrape[t])
                          EXCEPT !.raised = TRUE]]
        /\ Silent
        /\ UNCHANGED <<config, now, counters, gauge, loop, body, served, lastSample,
                       maxReported>>

\* the sampling call raises: nothing catches it, the server answers 500
metrics_raise(t) ==
    \E i \in 1..Len(GaugeOrder) :
        /\ AtSample(t, i)
        /\ MayRaise(i)
        /\ scrapes' = IF i = 1 THEN scrapes + 1 ELSE scrapes
        /\ response' = [ServerError("/metrics") EXCEPT !.lines = body[t]]
        /\ pc' = [pc EXCEPT ![t] = Idle]
        /\ sample' = [sample EXCEPT ![t] = 0]
        /\ body' = [body EXCEPT ![t] = <<>>]
        /\ scrape' = [scrape EXCEPT ![t] = NoScrape]
        /\ UNCHANGED <<config, now, counters, gauge, loop, served, lastSample,
                       maxReported>>

\* Gauge.set
metrics_set(t) ==
    /\ pc[t].stage = "set"
    /\ gauge' = [gauge EXCEPT ![GaugeOrder[pc[t].i]] = sample[t]]
    /\ sample' = [sample EXCEPT ![t] = 0]
    /\ pc' = [pc EXCEPT ![t] =
                 IF pc[t].i < Len(GaugeOrder)
                 THEN [stage |-> "sample", i |-> pc[t].i + 1]
                 ELSE [stage |-> "collect", i |-> 1]]
    /\ Silent
    /\ UNCHANGED <<config, now, counters, loop, body, scrapes, history>>

\* the value a body reports for an unlabelled metric
Reported(lines, name) ==
    LET i == CHOOSE j \in 1..Len(lines) :
                 lines[j].kind = "sample" /\ lines[j].name = name
    IN  lines[i].value

\* the sum a body reports over the children of a labelled metric
ReportedSum(lines, name) ==
    LET at == {j \in 1..Len(lines) : lines[j].kind = "sample" /\ lines[j].name = name}
    IN  Sum([j \in at |-> lines[j].value])

\* Response(generate_latest(), media_type=CONTENT_TYPE_LATEST)
ExpositionResponse(lines, h) ==
    [kind |-> "exposition", route |-> "/metrics", status_code |-> 200,
     media_type |-> "text/plain; version=0.0.4; charset=utf-8",
     lines |-> lines, floor |-> h.floor, raised |-> h.raised, between |-> h.between]

\* GET /get_info stands between its two increments
BetweenIncrements == loop.pc \in {"labels", "inc_version"}

Observe(t, i) ==
    CASE i = 1 -> [scrape[t] EXCEPT !.seen = <<BetweenIncrements, REQUEST_COUNT>>]
      [] i = 2 -> [scrape[t] EXCEPT
                     !.seen = <<>>,
                     !.between = /\ BetweenIncrements
                                 /\ scrape[t].seen = <<TRUE, REQUEST_COUNT>>]
      [] OTHER -> scrape[t]

\* line 60: generate_latest() reads the registry one metric at a time; after
\* the last metric the response is returned
metrics_collect(t) ==
    /\ pc[t].stage = "collect"
    /\ LET i == pc[t].i
           lines == body[t] \o Collect(i)
       IN  IF i < Len(Registry)
           THEN /\ body' = [body EXCEPT ![t] = lines]
                /\ pc' = [pc EXCEPT ![t] = [stage |-> "collect", i |-> i + 1]]
                /\ scrape' = [scrape EXCEPT ![t] = Observe(t, i)]
                /\ Silent
                /\ UNCHANGED maxReported
           ELSE /\ response' = ExpositionResponse(lines, scrape[t])
                /\ maxReported' = Max(maxReported, Reported(lines, "uptime_seconds"))
                /\ body' = [body EXCEPT ![t] = <<>>]
                /\ pc' = [pc EXCEPT ![t] = Idle]
                /\ scrape' = [scrape EXCEPT ![t] = NoScrape]
    /\ UNCHANGED <<config, now, counters, gauge, loop, sample, scrapes, served,
                   lastSample>>

metrics(t) ==
    \/ metrics_sample(t)
    \/ metrics_raise(t)
    \/ metrics_set(t)
    \/ metrics_collect(t)

-----------------------------------------------------------------------------

\* time passes
Tick ==
    /\ now < MaxTime
    /\ now' = now + 1
    /\ Silent
    /\ UNCHANGED <<config, counters, gauge, loop, pc, sample, body, scrapes, history>>

Next ==
    \/ \E t \in Workers : root(t)
    \/ get_info
    \/ \E t \in Workers : metrics(t)
    \/ Tick

Spec == Init /\ [][Next]_vars

\* GET /metrics alone, sent MaxRaces times
InitScrapes ==
    /\ env = << >>
    /\ hostname = "minikube"
    /\ now = 0
    /\ START_TIME = now
    /\ REQUEST_COUNT = 0
    /\ REQUEST_COUNT_PER_VERSION = << >>
    /\ gauge = [g \in GaugeNames |-> 0]
    /\ loop = [pc |-> "idle", app_title |-> "", app_version |-> ""]
    /\ pc = [t \in Workers |-> Idle]
    /\ sample = [t \in Workers |-> 0]
    /\ body = [t \in Workers |-> <<>>]
    /\ response = NoResponse
    /\ quota = MaxRaces
    /\ scrapes = 0
    /\ served = << >>
    /\ lastSample = [g \in GaugeNames |-> None]
    /\ maxReported = None
    /\ scrape = [t \in Workers |-> NoScrape]

NextScrapes ==
    \/ \E t \in Workers : metrics(t)
    \/ Tick

SpecScrapes == InitScrapes /\ [][NextScrapes]_vars

\* GET /get_info and GET / alone, under every environment and hostname
InitInfo ==
    /\ env \in Environments
    /\ hostname \in Hostnames
    /\ now = 0
    /\ START_TIME = now
    /\ REQUEST_COUNT = 0
    /\ REQUEST_COUNT_PER_VERSION = << >>
    /\ gauge = [g \in GaugeNames |-> 0]
    /\ loop = [pc |-> "idle", app_title |-> "", app_version |-> ""]
    /\ pc = [t \in Workers |-> Idle]
    /\ sample = [t \in Workers |-> 0]
    /\ body = [t \in Workers |-> <<>>]
    /\ response = NoResponse
    /\ quota = 0
    /\ scrapes = 0
    /\ served = << >>
    /\ lastSample = [g \in GaugeNames |-> None]
    /\ maxReported = None
    /\ scrape = [t \in Workers |-> NoScrape]

NextInfo ==
    \/ \E t \in Workers : root(t)
    \/ get_info

SpecInfo == InitInfo /\ [][NextInfo]_vars

-----------------------------------------------------------------------------
(* Properties *)

Busy == \E t \in Workers : pc[t] # Idle

\* the increments get_info has made in the request it is serving
TotalInFlight == IF loop.pc \in {"labels", "inc_version", "return"} THEN 1 ELSE 0

VersionInFlight(v) == IF loop.pc = "return" /\ loop.app_version = v THEN 1 ELSE 0

Versions == VersionValues \cup {"1.0"} \cup DOMAIN REQUEST_COUNT_PER_VERSION

CountersCountServed ==
    /\ REQUEST_COUNT = Sum(served) + TotalInFlight
    /\ \A v \in Versions : Child(v) = Served(v) + VersionInFlight(v)

CountersNeverDecrease ==
    /\ REQUEST_COUNT' >= REQUEST_COUNT
    /\ \A v \in DOMAIN REQUEST_COUNT_PER_VERSION :
          /\ v \in DOMAIN REQUEST_COUNT_PER_VERSION'
          /\ REQUEST_COUNT_PER_VERSION'[v] >= REQUEST_COUNT_PER_VERSION[v]

\* C1: whatever GET / and GET /metrics requests run beside them, once N
\* GET /get_info requests have completed under version v the total counter
\* stands at N and the child of v at N (one more each once the request being
\* served has passed the increment), and no step lowers either counter or
\* removes a child.
C1_CountersCountEveryRequest ==
    []CountersCountServed /\ [][CountersNeverDecrease]_vars

\* two requests served while a scrape is under way, then a redirect answered
C1_TwoServedBesideOthers ==
    /\ loop.pc = "idle"
    /\ Sum(served) = 2
    /\ REQUEST_COUNT = 2
    /\ \E v \in Versions : Child(v) = 2
    /\ Busy
    /\ response.route = "/"

\* C2 as stated: GET / answers with status 302 and redirects to /get_info.
C2_RootAnswers302 ==
    response.route = "/" =>
        /\ response.status_code = 302
        /\ response.location = "/get_info"

\* C2 amended: GET / answers with status 307, the default of
\* RedirectResponse, and redirects to /get_info.
C2_RootAnswers307 ==
    response.route = "/" =>
        /\ response.status_code = 307
        /\ response.location = "/get_info"

C2_RootAnswered == response.route = "/" /\ response.kind = "redirect"

RedirectStatuses == {301, 302, 303, 307, 308}

\* C3: in every reachable state the answer to GET / is a redirect, and its
\* target is exactly /get_info.
C3_RootRedirectsToGetInfo ==
    response.route = "/" =>
        /\ response.kind = "redirect"
        /\ response.status_code \in RedirectStatuses
        /\ response.location = "/get_info"

\* GET / answered after requests to the other two routes
C3_RootAfterOtherRequests ==
    /\ response.route = "/"
    /\ REQUEST_COUNT > 0
    /\ scrapes > 0

InfoKeys == {"APP_VERSION", "APP_TITLE", "MESSAGE"}

Greeting == "Hello from "

\* C4: under every environment the body of GET /get_info has exactly the keys
\* APP_VERSION, APP_TITLE and MESSAGE, each a string: the environment's
\* version if set and "1.0" if not, the environment's title if set and
\* "My FastAPI App" if not, and "Hello from " followed by the hostname.
C4_InfoBody ==
    response.route = "/get_info" =>
        LET c == response.content
        IN  /\ response.kind = "json"
            /\ response.status_code = 200
            /\ DOMAIN c = InfoKeys
            /\ \A k \in InfoKeys : c[k] \in STRING
            /\ "APP_VERSION" \in DOMAIN env => c.APP_VERSION = env["APP_VERSION"]
            /\ "APP_VERSION" \notin DOMAIN env => c.APP_VERSION = "1.0"
            /\ "APP_TITLE" \in DOMAIN env => c.APP_TITLE = env["APP_TITLE"]
            /\ "APP_TITLE" \notin DOMAIN env => c.APP_TITLE = "My FastAPI App"
            /\ Len(c.MESSAGE) = Len(Greeting) + Len(hostname)
            /\ SubSeq(c.MESSAGE, 1, Len(Greeting)) = Greeting
            /\ SubSeq(c.MESSAGE, Len(Greeting) + 1, Len(c.MESSAGE)) = hostname

\* answered with the version unset and the title set to the empty string
C4_DefaultVersionEmptyTitle ==
    /\ response.route = "/get_info"
    /\ "APP_VERSION" \notin DOMAIN env
    /\ "APP_TITLE" \in DOMAIN env
    /\ env["APP_TITLE"] = ""

MetricNames ==
    {"get_info_requests_total", "get_info_requests_total_by_version",
     "cpu_usage_percent", "memory_usage_percent", "uptime_seconds", "thread_count",
     "disk_usage_percent"}

Lists(lines, m) == \E j \in 1..Len(lines) : StartsWith(lines[j].name, m)

\* C5: every successful GET /metrics body names all seven metrics, also when
\* the per-version counter has no child yet.
C5_AllSevenListed ==
    response.kind = "exposition" =>
        \A m \in MetricNames : Lists(response.lines, m)

\* a body written while the per-version counter had no child
C5_ScrapeWithoutChild ==
    /\ response.kind = "exposition"
    /\ \A j \in 1..Len(response.lines) : response.lines[j].labels = <<>>

\* C6 as stated: the uptime a GET /metrics reports is >= 0 and not below the
\* uptime any scrape completed before this one began has reported.
C6_UptimeNeverGoesBack ==
    response.kind = "exposition" =>
        /\ Reported(response.lines, "uptime_seconds") >= 0
        /\ Reported(response.lines, "uptime_seconds") >= response.floor

\* C7: a GET /metrics in which a sampling call raised ends at once with a
\* server error that carries no metrics line; no request goes on, samples
\* again or returns a body after a call of its own has raised.
C7_RaiseEndsInServerError ==
    /\ \A t \in Workers : ~scrape[t].raised
    /\ response.route = "/metrics" =>
          /\ response.raised <=> response.kind = "error"
          /\ response.kind = "error" =>
                /\ response.status_code = 500
                /\ response.lines = <<>>

\* the disk query raised after the four gauges before it were set
C7_RaisedAtDisk ==
    /\ response.route = "/metrics"
    /\ response.kind = "error"
    /\ gauge["thread_count"] \in ThreadValues
    /\ gauge["disk_usage_percent"] = 0

\* C8 as stated: once the GET /metrics requests have completed, each gauge
\* holds the sample taken last for it.
C8_GaugesHoldLastSample ==
    ~Busy =>
        \A g \in GaugeNames : lastSample[g] # None => gauge[g] = lastSample[g]

\* C9: a step of GET / changes no counter and no gauge, a step of
\* GET /metrics, failing or not, changes no counter, and a step of
\* GET /get_info changes no gauge.
C9_HandlersKeepToTheirMetrics ==
    [][/\ response'.route = "/" => UNCHANGED <<counters, gauge>>
       /\ (pc' # pc \/ response'.route = "/metrics") => UNCHANGED counters
       /\ loop' # loop => UNCHANGED gauge]_vars

\* GET / answered while a request counted and a gauge set are in place
C9_RootOverLiveMetrics ==
    /\ response.route = "/"
    /\ REQUEST_COUNT = 1
    /\ gauge["cpu_usage_percent"] \in CpuValues
    /\ loop.pc = "inc_version"

\* C10: the total exceeds the sum of the per-version children by one exactly
\* while a GET /get_info stands between its two increments and equals it
\* otherwise, and a scrape that reads both counters within one such window
\* reports a total one above the sum.
C10_TotalLeadsVersions ==
    /\ REQUEST_COUNT - Sum(REQUEST_COUNT_PER_VERSION) =
          IF BetweenIncrements THEN 1 ELSE 0
    /\ (response.kind = "exposition" /\ response.between) =>
          Reported(response.lines, "get_info_requests_total")
            - ReportedSum(response.lines, "get_info_requests_total_by_version_total") = 1

\* a scrape that read both counters between the two increments
C10_ScrapeBetweenIncrements ==
    /\ response.kind = "exposition"
    /\ response.between
    /\ Reported(response.lines, "get_info_requests_total") = 2

====
